---- MODULE Spec2Model ----
(***************************************************************************)
(* ChatMemoryService (src/app/services/memory_service.py): the in-memory   *)
(* session store, its inactivity sweep and its background cleanup thread.  *)
(*                                                                         *)
(* The two dicts are functions whose DOMAIN is the set of keys.  The lists *)
(* held by _memory are objects with identity: memory maps a session id to  *)
(* a reference and heap maps a reference to the list's contents, so that   *)
(* two holders of the same list see each other's appends and a reassigned  *)
(* list leaves the old object behind.                                      *)
(*                                                                         *)
(* Every thread executes its method one shared access at a time (pc).      *)
(* Spec runs one caller, and the cleanup thread's sweeps, one operation at *)
(* a time; SpecConc interleaves two callers and the cleanup thread freely. *)
(*                                                                         *)
(* Time is an integer clock.  An operation takes far less than one clock   *)
(* unit, so the clock advances only while no thread is inside a method     *)
(* (the cleanup thread being in time.sleep).                               *)
(***************************************************************************)
EXTENDS Integers, Sequences, FiniteSets, TLC

\* ---------------------------------------------------------------- bounds
MaxTime == 2
MaxAdds == 3
MaxRefs == 6
MaxHistoryCfg == 2
MaxCalls == 2
MaxRaceAdds == 4
MaxCountCalls == 3

\* ------------------------------------------------------- program constants
\* timedelta(minutes=session_timeout_minutes), in clock units
session_timeout == 1
\* the constructor's cleanup_interval_seconds argument
cleanup_interval_arg == 1
\* the floor of max(5, int(cleanup_interval_seconds))
MinCleanupInterval == 5

Max(a, b) == IF a >= b THEN a ELSE b
Min(a, b) == IF a <= b THEN a ELSE b

cleanup_interval_seconds == Max(MinCleanupInterval, cleanup_interval_arg)

Sessions == {"s1", "s2"}
Callers == {"c1", "c2"}
Reaper == "r"
Threads == Callers \cup {Reaper}
Refs == 1..MaxRefs

VARIABLES
    memory,         \* self._memory: session id -> reference of its list
    heap,           \* reference -> contents of the list object
    last_activity,  \* self._last_activity: session id -> datetime
    stop_event,     \* self._stop_event
    max_history,    \* settings.max_history_per_session
    now,            \* datetime.now()
    pc,             \* per thread: the next statement
    op,             \* per caller: the method being run and its arguments
    sw,             \* per thread: the frame of _cleanup_inactive_sessions
    fr,             \* per caller: the locals of the method being run
    ret,            \* per caller: what the finished method returned or raised
    total,          \* the cleanup loop's local `total`
    nextx,          \* history: number of the next exchange handed to add_exchange
    log,            \* history: per session, the exchanges appended since it was last removed
    pre,            \* history: the store as it was when the running operation was called
    calls,          \* history: the number of calls made beside the running cleanup thread
    before          \* history: per exchange, the exchanges whose add_exchange had returned when its own was called

storeVars == <<memory, heap, last_activity, stop_event, max_history, now>>
threadVars == <<pc, op, sw, fr, ret, total>>
histVars == <<nextx, log>>
vars == <<memory, heap, last_activity, stop_event, max_history, now,
          pc, op, sw, fr, ret, total, nextx, log, pre, calls, before>>

\* ------------------------------------------------------------------ data
\* Exchange number i is the pair (question i, answer i); the store never
\* inspects the strings, so pairwise distinct ones are the general case.
Question(i) == <<"q", i>>
Answer(i) == <<"a", i>>
Exchange(i) == <<Question(i), Answer(i)>>

EmptyDict == [k \in {} |-> 0]
DictDel(d, k) == [j \in DOMAIN d \ {k} |-> d[j]]
DictSet(d, k, v) == [j \in DOMAIN d \cup {k} |-> IF j = k THEN v ELSE d[j]]

\* Variant: the slice lst[:m], which keeps the oldest m elements.
SliceFirst(lst, m) == SubSeq(lst, 1, Min(m, Len(lst)))

\* lst[-m:]
SliceLast(lst, m) ==
    LET n == Len(lst)
        start == IF m > 0 THEN Max(n - m, 0) ELSE Min(0 - m, n)
    IN  SubSeq(lst, start + 1, n)

\* Variant: now - last_time >= self._session_timeout
ExpiredAtTimeout(nw, last_time) == nw - last_time >= session_timeout

\* now - last_time > self._session_timeout
Expired(nw, last_time) == nw - last_time > session_timeout

\* The history of every session, by value.
View(mem, h) == [s \in DOMAIN mem |-> h[mem[s]]]

NoOp == [name |-> "none", sid |-> "-", x |-> 0]
NoSweep == [now |-> 0, size |-> 0, visited |-> {}, inactive |-> <<>>, i |-> 0, back |-> "-"]
NoFrame == [lst |-> 0, existed |-> FALSE, max_history |-> 0, count |-> 0, last |-> -1]
NoRet == [status |-> "none", val |-> 0]
NoPre == [memory |-> EmptyDict, last_activity |-> EmptyDict, now |-> 0]

\* ---------------------------------------------------------- list objects
\* The references some holder still has: the dict, a caller's local, or a
\* dict returned by get_all_sessions.
RetRefs(o, rt) ==
    IF o.name = "get_all_sessions" /\ rt.status = "ok"
    THEN {rt.val[s] : s \in DOMAIN rt.val} ELSE {}
Reach(mem, f, o, rt) ==
    {mem[s] : s \in DOMAIN mem}
    \cup ({f[t].lst : t \in Callers} \ {0})
    \cup UNION {RetRefs(o[t], rt[t]) : t \in Callers}
\* A list object nobody holds is collected.
Collect(h, reach) == [r \in Refs |-> IF r \in reach THEN h[r] ELSE <<>>]
\* The reference of a newly created list.
NewRef(reach) == CHOOSE r \in Refs : r \notin reach /\ \A q \in Refs : q \notin reach => r <= q

Init ==
    /\ memory = EmptyDict
    /\ heap = [r \in Refs |-> <<>>]
    /\ last_activity = EmptyDict
    /\ stop_event = FALSE
    /\ max_history \in 1..MaxHistoryCfg
    /\ now = 0
    /\ pc = [t \in Threads |-> IF t = Reaper THEN "r_loop" ELSE "idle"]
    /\ op = [t \in Callers |-> NoOp]
    /\ sw = [t \in Threads |-> NoSweep]
    /\ fr = [t \in Callers |-> NoFrame]
    /\ ret = [t \in Callers |-> NoRet]
    /\ total = 0
    /\ nextx = 1
    /\ log = [s \in Sessions |-> <<>>]
    /\ pre = NoPre
    /\ calls = 0
    /\ before = [i \in 1..MaxRaceAdds |-> {}]

\* ------------------------------------------------------- leaving a method
\* The method of caller t returns v.
Finish(t, v) ==
    /\ pc' = [pc EXCEPT ![t] = "done"]
    /\ ret' = [ret EXCEPT ![t] = [status |-> "ok", val |-> v]]
    /\ fr' = [fr EXCEPT ![t] = NoFrame]

\* Variant: no except clause in the loop, an exception ends the cleanup
\* thread.
RaiseUncaught(t, exc) ==
    /\ pc' = [pc EXCEPT ![t] = IF t = Reaper THEN "r_exit" ELSE "done"]
    /\ IF t = Reaper
       THEN UNCHANGED <<ret, fr>>
       ELSE /\ ret' = [ret EXCEPT ![t] = [status |-> "raised", val |-> exc]]
            /\ fr' = [fr EXCEPT ![t] = NoFrame]
    /\ UNCHANGED total

\* An exception leaves the method of caller t; in the cleanup thread it is
\* caught by the loop's except clause, which goes on to the wait.
Raise(t, exc) ==
    IF t = Reaper
    THEN /\ pc' = [pc EXCEPT ![t] = "r_wait"]
         /\ total' = 0
         /\ UNCHANGED <<ret, fr>>
    ELSE /\ pc' = [pc EXCEPT ![t] = "done"]
         /\ ret' = [ret EXCEPT ![t] = [status |-> "raised", val |-> exc]]
         /\ fr' = [fr EXCEPT ![t] = NoFrame]
         /\ UNCHANGED total

\* ---------------------------------------- _cleanup_inactive_sessions
\* now = datetime.now(); the comprehension's iterator over
\* self._last_activity.items() remembers the dict's size.
SweepBegin(t) ==
    /\ pc[t] = "sw_begin"
    /\ sw' = [sw EXCEPT ![t] = [@ EXCEPT !.now = now,
                                         !.size = Cardinality(DOMAIN last_activity),
                                         !.visited = {},
                                         !.inactive = <<>>,
                                         !.i = 1]]
    /\ pc' = [pc EXCEPT ![t] = "sw_next"]
    /\ UNCHANGED <<storeVars, op, fr, ret, total, histVars>>

\* One step of the iterator: RuntimeError when the dict changed size, the
\* next item (in the dict's order, which the model leaves open) otherwise.
SweepNextRaise(t) ==
    /\ pc[t] = "sw_next"
    /\ Cardinality(DOMAIN last_activity) # sw[t].size
    /\ sw' = [sw EXCEPT ![t] = NoSweep]
    /\ Raise(t, "RuntimeError")
    /\ UNCHANGED <<storeVars, op, histVars>>

SweepNextItem(t) ==
    /\ pc[t] = "sw_next"
    /\ Cardinality(DOMAIN last_activity) = sw[t].size
    /\ \E session_id \in DOMAIN last_activity \ sw[t].visited :
         sw' = [sw EXCEPT ![t] = [@ EXCEPT
                  !.visited = @ \cup {session_id},
                  !.inactive = IF Expired(sw[t].now, last_activity[session_id])
                               THEN Append(@, session_id) ELSE @]]
    /\ UNCHANGED <<storeVars, pc, op, fr, ret, total, histVars>>

SweepNextEnd(t) ==
    /\ pc[t] = "sw_next"
    /\ Cardinality(DOMAIN last_activity) = sw[t].size
    /\ DOMAIN last_activity \ sw[t].visited = {}
    /\ pc' = [pc EXCEPT ![t] = "sw_for"]
    /\ sw' = [sw EXCEPT ![t] = [@ EXCEPT !.visited = {}]]
    /\ UNCHANGED <<storeVars, op, fr, ret, total, histVars>>

\* A key that is deleted and inserted again takes a new place at the end of
\* the dict, where a running iterator still finds it.
Forget(s, k) == [u \in Threads |-> [s[u] EXCEPT !.visited = @ \ {k}]]

\* for session_id in inactive_sessions: if session_id in self._memory
SweepFor(t) ==
    /\ pc[t] = "sw_for"
    /\ sw[t].i <= Len(sw[t].inactive)
    /\ pc' = [pc EXCEPT ![t] = IF sw[t].inactive[sw[t].i] \in DOMAIN memory
                               THEN "sw_delmem" ELSE "sw_delact"]
    /\ UNCHANGED <<storeVars, op, sw, fr, ret, total, histVars>>

\* del self._memory[session_id]
SweepDelMemory(t) ==
    /\ pc[t] = "sw_delmem"
    /\ LET session_id == sw[t].inactive[sw[t].i] IN
         IF session_id \in DOMAIN memory
         THEN /\ memory' = DictDel(memory, session_id)
              /\ heap' = Collect(heap, Reach(memory', fr, op, ret))
              /\ log' = [log EXCEPT ![session_id] = <<>>]
              /\ pc' = [pc EXCEPT ![t] = "sw_delact"]
              /\ UNCHANGED <<sw, fr, ret, total>>
         ELSE /\ sw' = [sw EXCEPT ![t] = NoSweep]
              /\ Raise(t, "KeyError")
              /\ UNCHANGED <<memory, heap, log>>
    /\ UNCHANGED <<last_activity, stop_event, max_history, now, op, nextx>>

\* del self._last_activity[session_id]
SweepDelActivity(t) ==
    /\ pc[t] = "sw_delact"
    /\ LET session_id == sw[t].inactive[sw[t].i] IN
         IF session_id \in DOMAIN last_activity
         THEN /\ last_activity' = DictDel(last_activity, session_id)
              /\ sw' = [Forget(sw, session_id) EXCEPT ![t].i = @ + 1]
              /\ pc' = [pc EXCEPT ![t] = "sw_for"]
              /\ UNCHANGED <<fr, ret, total>>
         ELSE /\ sw' = [sw EXCEPT ![t] = NoSweep]
              /\ Raise(t, "KeyError")
              /\ UNCHANGED last_activity
    /\ UNCHANGED <<memory, heap, stop_event, max_history, now, op, histVars>>

\* return len(inactive_sessions), to the statement after the call
SweepReturn(t) ==
    /\ pc[t] = "sw_for"
    /\ sw[t].i > Len(sw[t].inactive)
    /\ sw' = [sw EXCEPT ![t] = NoSweep]
    /\ IF sw[t].back = "sweep_ret"
       THEN Finish(t, Len(sw[t].inactive)) /\ UNCHANGED total
       ELSE /\ pc' = [pc EXCEPT ![t] = sw[t].back]
            /\ total' = IF t = Reaper THEN 0 ELSE total
            /\ UNCHANGED <<fr, ret>>
    /\ UNCHANGED <<storeVars, op, histVars>>

\* self._cleanup_inactive_sessions(), returning to `back`
CallSweep(t, back) ==
    /\ pc' = [pc EXCEPT ![t] = "sw_begin"]
    /\ sw' = [sw EXCEPT ![t] = [NoSweep EXCEPT !.back = back]]

Sweep(t) ==
    \/ SweepBegin(t)
    \/ SweepNextRaise(t)
    \/ SweepNextItem(t)
    \/ SweepNextEnd(t)
    \/ SweepFor(t)
    \/ SweepDelMemory(t)
    \/ SweepDelActivity(t)
    \/ SweepReturn(t)

\* self._memory[session_id] on the defaultdict(list): a missing key is
\* inserted with a new empty list.
MemoryGetItem(mem, session_id, reach) ==
    IF session_id \in DOMAIN mem THEN mem ELSE DictSet(mem, session_id, NewRef(reach))

\* ----------------------------------------------------------- add_exchange
\* Variant: the inline sweep runs before the timestamp is set, lines 65 and
\* 68 exchanged in effect: the sweep judges the session by its old timestamp.
AddSweepFirst(t) ==
    /\ pc[t] = "add_touch"
    /\ last_activity' = IF op[t].sid \in DOMAIN last_activity
                           /\ Expired(now, last_activity[op[t].sid])
                        THEN last_activity
                        ELSE DictSet(last_activity, op[t].sid, now)
    /\ CallSweep(t, "add_get")
    /\ UNCHANGED <<memory, heap, stop_event, max_history, now, op, fr, ret, total, histVars>>

\* self._last_activity[session_id] = datetime.now(); then the inline sweep
AddTouch(t) ==
    /\ pc[t] = "add_touch"
    /\ last_activity' = DictSet(last_activity, op[t].sid, now)
    /\ CallSweep(t, "add_get")
    /\ UNCHANGED <<memory, heap, stop_event, max_history, now, op, fr, ret, total, histVars>>

\* self._memory[session_id] of line 70: the list to append to
AddGet(t) ==
    /\ pc[t] = "add_get"
    /\ memory' = MemoryGetItem(memory, op[t].sid, Reach(memory, fr, op, ret))
    /\ fr' = [fr EXCEPT ![t] = [@ EXCEPT !.lst = memory'[op[t].sid]]]
    /\ pc' = [pc EXCEPT ![t] = "add_append"]
    /\ UNCHANGED <<heap, last_activity, stop_event, max_history, now, op, sw, ret, total, histVars>>

\* .append((question, answer))
AddAppend(t) ==
    /\ pc[t] = "add_append"
    /\ fr' = [fr EXCEPT ![t] = [@ EXCEPT !.lst = 0]]
    /\ heap' = Collect([heap EXCEPT ![fr[t].lst] = Append(@, Exchange(op[t].x))],
                       Reach(memory, fr', op, ret))
    /\ log' = [log EXCEPT ![op[t].sid] = Append(@, op[t].x)]
    /\ pc' = [pc EXCEPT ![t] = "add_len"]
    /\ UNCHANGED <<memory, last_activity, stop_event, max_history, now, op, sw, ret, total, nextx>>

\* max_history = settings.max_history_per_session
\* if len(self._memory[session_id]) > max_history
AddLen(t) ==
    /\ pc[t] = "add_len"
    /\ memory' = MemoryGetItem(memory, op[t].sid, Reach(memory, fr, op, ret))
    /\ IF Len(heap[memory'[op[t].sid]]) > max_history
       THEN /\ pc' = [pc EXCEPT ![t] = "add_slice"]
            /\ fr' = [fr EXCEPT ![t] = [@ EXCEPT !.max_history = max_history]]
            /\ UNCHANGED ret
       ELSE Finish(t, "None")
    /\ UNCHANGED <<heap, last_activity, stop_event, max_history, now, op, sw, total, histVars>>

\* Variant: the write drops the oldest entry only, lst[1:].
AddSliceDropOne(t) ==
    /\ pc[t] = "add_slice"
    /\ memory' = MemoryGetItem(memory, op[t].sid, Reach(memory, fr, op, ret))
    /\ LET new == NewRef(Reach(memory', fr, op, ret)) IN
         /\ fr' = [fr EXCEPT ![t] = [@ EXCEPT !.lst = new]]
         /\ heap' = [heap EXCEPT ![new] = Tail(heap[memory'[op[t].sid]])]
    /\ pc' = [pc EXCEPT ![t] = "add_store"]
    /\ UNCHANGED <<last_activity, stop_event, max_history, now, op, sw, ret, total, histVars>>

\* self._memory[session_id][-max_history:], a new list
AddSlice(t) ==
    /\ pc[t] = "add_slice"
    /\ memory' = MemoryGetItem(memory, op[t].sid, Reach(memory, fr, op, ret))
    /\ LET new == NewRef(Reach(memory', fr, op, ret)) IN
         /\ fr' = [fr EXCEPT ![t] = [@ EXCEPT !.lst = new]]
         /\ heap' = [heap EXCEPT ![new] = SliceLast(heap[memory'[op[t].sid]], fr[t].max_history)]
    /\ pc' = [pc EXCEPT ![t] = "add_store"]
    /\ UNCHANGED <<last_activity, stop_event, max_history, now, op, sw, ret, total, histVars>>

\* self._memory[session_id] = <the slice>
AddStore(t) ==
    /\ pc[t] = "add_store"
    /\ memory' = DictSet(memory, op[t].sid, fr[t].lst)
    /\ Finish(t, "None")
    /\ heap' = Collect(heap, Reach(memory', fr', op, ret'))
    /\ UNCHANGED <<last_activity, stop_event, max_history, now, op, sw, total, histVars>>

add_exchange(t) ==
    \/ AddTouch(t)
    \/ AddGet(t)
    \/ AddAppend(t)
    \/ AddLen(t)
    \/ AddSlice(t)
    \/ AddStore(t)

\* ------------------------------------------------------------ get_history
\* if session_id in self._memory
HistoryIn(t) ==
    /\ pc[t] = "gh_in"
    /\ pc' = [pc EXCEPT ![t] = IF op[t].sid \in DOMAIN memory THEN "gh_touch" ELSE "gh_get"]
    /\ UNCHANGED <<storeVars, op, sw, fr, ret, total, histVars>>

\* self._last_activity[session_id] = datetime.now()
HistoryTouch(t) ==
    /\ pc[t] = "gh_touch"
    /\ last_activity' = DictSet(last_activity, op[t].sid, now)
    /\ pc' = [pc EXCEPT ![t] = "gh_get"]
    /\ UNCHANGED <<memory, heap, stop_event, max_history, now, op, sw, fr, ret, total, histVars>>

\* Variant: self._memory[session_id] without the membership test of line 81,
\* so that the defaultdict inserts an empty list for an absent key.
HistoryGetCreating(t) ==
    /\ pc[t] = "gh_get"
    /\ memory' = MemoryGetItem(memory, op[t].sid, Reach(memory, fr, op, ret))
    /\ IF op[t].name = "get_history"
       THEN Finish(t, heap[memory'[op[t].sid]])
       ELSE /\ fr' = [fr EXCEPT ![t] = [@ EXCEPT !.lst = memory'[op[t].sid]]]
            /\ pc' = [pc EXCEPT ![t] = "lc_build"]
            /\ UNCHANGED ret
    /\ UNCHANGED <<heap, last_activity, stop_event, max_history, now, op, sw, total, histVars>>

\* return self._memory.get(session_id, []): the session's list, or a new
\* empty one (lst = 0).  ret holds what the list contains at the return.
HistoryGet(t) ==
    /\ pc[t] = "gh_get"
    /\ LET lst == IF op[t].sid \in DOMAIN memory THEN memory[op[t].sid] ELSE 0 IN
         IF op[t].name = "get_history"
         THEN Finish(t, IF lst = 0 THEN <<>> ELSE heap[lst])
         ELSE /\ fr' = [fr EXCEPT ![t] = [@ EXCEPT !.lst = lst]]
              /\ pc' = [pc EXCEPT ![t] = "lc_build"]
              /\ UNCHANGED ret
    /\ UNCHANGED <<storeVars, op, sw, total, histVars>>

get_history(t) ==
    \/ HistoryIn(t)
    \/ HistoryTouch(t)
    \/ HistoryGet(t)

\* ---------------------------------------------------------- clear_session
\* existed = (session_id in self._memory) or ...
ClearExistedMemory(t) ==
    /\ pc[t] = "cl_ex1"
    /\ IF op[t].sid \in DOMAIN memory
       THEN /\ fr' = [fr EXCEPT ![t] = [@ EXCEPT !.existed = TRUE]]
            /\ pc' = [pc EXCEPT ![t] = "cl_in1"]
       ELSE /\ pc' = [pc EXCEPT ![t] = "cl_ex2"]
            /\ UNCHANGED fr
    /\ UNCHANGED <<storeVars, op, sw, ret, total, histVars>>

\* ... or (session_id in self._last_activity)
ClearExistedActivity(t) ==
    /\ pc[t] = "cl_ex2"
    /\ fr' = [fr EXCEPT ![t] = [@ EXCEPT !.existed = op[t].sid \in DOMAIN last_activity]]
    /\ pc' = [pc EXCEPT ![t] = "cl_in1"]
    /\ UNCHANGED <<storeVars, op, sw, ret, total, histVars>>

\* Variant: clear_session without lines 88-89, the history is never deleted.
ClearSkipMemory(t) ==
    /\ pc[t] = "cl_in1"
    /\ pc' = [pc EXCEPT ![t] = "cl_in2"]
    /\ UNCHANGED <<storeVars, op, sw, fr, ret, total, histVars>>

\* if session_id in self._memory
ClearInMemory(t) ==
    /\ pc[t] = "cl_in1"
    /\ pc' = [pc EXCEPT ![t] = IF op[t].sid \in DOMAIN memory THEN "cl_del1" ELSE "cl_in2"]
    /\ UNCHANGED <<storeVars, op, sw, fr, ret, total, histVars>>

\* del self._memory[session_id]
ClearDelMemory(t) ==
    /\ pc[t] = "cl_del1"
    /\ IF op[t].sid \in DOMAIN memory
       THEN /\ memory' = DictDel(memory, op[t].sid)
            /\ heap' = Collect(heap, Reach(memory', fr, op, ret))
            /\ log' = [log EXCEPT ![op[t].sid] = <<>>]
            /\ pc' = [pc EXCEPT ![t] = "cl_in2"]
            /\ UNCHANGED <<fr, ret, total>>
       ELSE /\ Raise(t, "KeyError")
            /\ UNCHANGED <<memory, heap, log>>
    /\ UNCHANGED <<last_activity, stop_event, max_history, now, op, sw, nextx>>

\* Variant: clear_session without lines 90-91, the timestamp is never deleted.
ClearSkipActivity(t) ==
    /\ pc[t] = "cl_in2"
    /\ Finish(t, fr[t].existed)
    /\ UNCHANGED <<storeVars, op, sw, total, histVars>>

\* if session_id in self._last_activity
ClearInActivity(t) ==
    /\ pc[t] = "cl_in2"
    /\ IF op[t].sid \in DOMAIN last_activity
       THEN /\ pc' = [pc EXCEPT ![t] = "cl_del2"]
            /\ UNCHANGED <<fr, ret>>
       ELSE Finish(t, fr[t].existed)
    /\ UNCHANGED <<storeVars, op, sw, total, histVars>>

\* del self._last_activity[session_id]; return existed
ClearDelActivity(t) ==
    /\ pc[t] = "cl_del2"
    /\ IF op[t].sid \in DOMAIN last_activity
       THEN /\ last_activity' = DictDel(last_activity, op[t].sid)
            /\ sw' = Forget(sw, op[t].sid)
            /\ Finish(t, fr[t].existed)
            /\ UNCHANGED total
       ELSE /\ Raise(t, "KeyError")
            /\ UNCHANGED <<last_activity, sw>>
    /\ UNCHANGED <<memory, heap, stop_event, max_history, now, op, histVars>>

clear_session(t) ==
    \/ ClearExistedMemory(t)
    \/ ClearExistedActivity(t)
    \/ ClearInMemory(t)
    \/ ClearDelMemory(t)
    \/ ClearInActivity(t)
    \/ ClearDelActivity(t)

\* --------------------------------------------------- get_langchain_format
HumanMessage(content) == [type |-> "human", content |-> content]
AIMessage(content) == [type |-> "ai", content |-> content]

\* Variant: the loop body appends the answer's message before the question's.
MessagesAnswerFirst(history) ==
    [k \in 1..(2 * Len(history)) |->
        IF k % 2 = 1 THEN AIMessage(history[(k + 1) \div 2][2])
                     ELSE HumanMessage(history[k \div 2][1])]

\* for question, answer in history: messages.append(...); messages.append(...)
RECURSIVE Messages(_)
Messages(history) ==
    IF history = <<>> THEN <<>>
    ELSE <<HumanMessage(Head(history)[1]), AIMessage(Head(history)[2])>>
         \o Messages(Tail(history))

\* if session_id in self._memory
LangchainIn(t) ==
    /\ pc[t] = "lc_in"
    /\ pc' = [pc EXCEPT ![t] = IF op[t].sid \in DOMAIN memory THEN "lc_touch" ELSE "gh_in"]
    /\ UNCHANGED <<storeVars, op, sw, fr, ret, total, histVars>>

\* self._last_activity[session_id] = datetime.now(); then self.get_history
LangchainTouch(t) ==
    /\ pc[t] = "lc_touch"
    /\ last_activity' = DictSet(last_activity, op[t].sid, now)
    /\ pc' = [pc EXCEPT ![t] = "gh_in"]
    /\ UNCHANGED <<memory, heap, stop_event, max_history, now, op, sw, fr, ret, total, histVars>>

\* the loop over the list get_history returned; return messages
LangchainBuild(t) ==
    /\ pc[t] = "lc_build"
    /\ Finish(t, Messages(IF fr[t].lst = 0 THEN <<>> ELSE heap[fr[t].lst]))
    /\ heap' = Collect(heap, Reach(memory, fr', op, ret'))
    /\ UNCHANGED <<memory, last_activity, stop_event, max_history, now, op, sw, total, histVars>>

get_langchain_format(t) ==
    \/ LangchainIn(t)
    \/ LangchainTouch(t)
    \/ LangchainBuild(t)

\* ------------------------------------------- get_all_sessions, session_count
\* return dict(self._memory), after the sweep: a new dict of the same lists
AllSessionsCopy(t) ==
    /\ pc[t] = "gas_copy"
    /\ Finish(t, memory)
    /\ UNCHANGED <<storeVars, op, sw, total, histVars>>

\* return len(self._memory), after the sweep
SessionCountLen(t) ==
    /\ pc[t] = "sc_len"
    /\ Finish(t, Cardinality(DOMAIN memory))
    /\ UNCHANGED <<storeVars, op, sw, total, histVars>>

\* ------------------------------------------------------- get_session_info
\* if session_id not in self._memory: return {"exists": False}
InfoIn(t) ==
    /\ pc[t] = "si_in"
    /\ IF op[t].sid \notin DOMAIN memory
       THEN Finish(t, [exists |-> FALSE])
       ELSE /\ pc' = [pc EXCEPT ![t] = "si_len"]
            /\ UNCHANGED <<fr, ret>>
    /\ UNCHANGED <<storeVars, op, sw, total, histVars>>

\* "message_count": len(self._memory[session_id])
InfoLen(t) ==
    /\ pc[t] = "si_len"
    /\ memory' = MemoryGetItem(memory, op[t].sid, Reach(memory, fr, op, ret))
    /\ fr' = [fr EXCEPT ![t] = [@ EXCEPT !.count = Len(heap[memory'[op[t].sid]])]]
    /\ pc' = [pc EXCEPT ![t] = "si_last"]
    /\ UNCHANGED <<heap, last_activity, stop_event, max_history, now, op, sw, ret, total, histVars>>

\* Variant: get_session_info refreshes the timestamp as get_history does
\* before it reads it.
InfoLastTouching(t) ==
    /\ pc[t] = "si_last"
    /\ last_activity' = DictSet(last_activity, op[t].sid, now)
    /\ fr' = [fr EXCEPT ![t] = [@ EXCEPT !.last = now]]
    /\ pc' = [pc EXCEPT ![t] = "si_act"]
    /\ UNCHANGED <<memory, heap, stop_event, max_history, now, op, sw, ret, total, histVars>>

\* "last_activity": self._last_activity.get(session_id)   (None is -1)
InfoLast(t) ==
    /\ pc[t] = "si_last"
    /\ fr' = [fr EXCEPT ![t] = [@ EXCEPT !.last =
                IF op[t].sid \in DOMAIN last_activity THEN last_activity[op[t].sid] ELSE -1]]
    /\ pc' = [pc EXCEPT ![t] = "si_act"]
    /\ UNCHANGED <<storeVars, op, sw, ret, total, histVars>>

InfoRecord(f, active) ==
    [exists |-> TRUE, message_count |-> f.count, last_activity |-> f.last, is_active |-> active]

\* "is_active": session_id in self._last_activity and ...
InfoActiveIn(t) ==
    /\ pc[t] = "si_act"
    /\ IF op[t].sid \in DOMAIN last_activity
       THEN /\ pc' = [pc EXCEPT ![t] = "si_cmp"]
            /\ UNCHANGED <<fr, ret>>
       ELSE Finish(t, InfoRecord(fr[t], FALSE))
    /\ UNCHANGED <<storeVars, op, sw, total, histVars>>

\* Variant: ... <= self._session_timeout, the complement of the sweep's test.
InfoActiveUntilSwept(t) ==
    /\ pc[t] = "si_cmp"
    /\ IF op[t].sid \in DOMAIN last_activity
       THEN Finish(t, InfoRecord(fr[t], now - last_activity[op[t].sid] <= session_timeout))
            /\ UNCHANGED total
       ELSE Raise(t, "KeyError")
    /\ UNCHANGED <<storeVars, op, sw, histVars>>

\* ... (datetime.now() - self._last_activity[session_id]) < self._session_timeout
InfoActiveCompare(t) ==
    /\ pc[t] = "si_cmp"
    /\ IF op[t].sid \in DOMAIN last_activity
       THEN Finish(t, InfoRecord(fr[t], now - last_activity[op[t].sid] < session_timeout))
            /\ UNCHANGED total
       ELSE Raise(t, "KeyError")
    /\ UNCHANGED <<storeVars, op, sw, histVars>>

get_session_info(t) ==
    \/ InfoIn(t)
    \/ InfoLen(t)
    \/ InfoLast(t)
    \/ InfoActiveIn(t)
    \/ InfoActiveCompare(t)

\* ------------------------------------------------------------------- stop
\* self._stop_event.set()
stop(t) ==
    /\ pc[t] = "stop_set"
    /\ stop_event' = TRUE
    /\ Finish(t, "None")
    /\ UNCHANGED <<memory, heap, last_activity, max_history, now, op, sw, total, histVars>>

\* ------------------------------------------------------ _run_cleanup_loop
\* while not self._stop_event.is_set(): the loop ends
CleanupLoopExit ==
    /\ pc[Reaper] = "r_loop"
    /\ stop_event
    /\ pc' = [pc EXCEPT ![Reaper] = "r_exit"]
    /\ UNCHANGED <<storeVars, op, sw, fr, ret, total, histVars>>

\* Variant: while True, the loop never tests the stop event.
CleanupLoopAlways ==
    /\ pc[Reaper] = "r_loop"
    /\ CallSweep(Reaper, "r_wait")
    /\ UNCHANGED <<storeVars, op, fr, ret, total, histVars>>

\* while not self._stop_event.is_set(): self._cleanup_inactive_sessions();
\* total = 0 follows the call, and the except clause
CleanupLoopSweep ==
    /\ pc[Reaper] = "r_loop"
    /\ ~stop_event
    /\ CallSweep(Reaper, "r_wait")
    /\ UNCHANGED <<storeVars, op, fr, ret, total, histVars>>

\* Variant: while total < interval, the wait does not look at the stop event.
CleanupSleepThrough ==
    /\ pc[Reaper] = "r_wait"
    /\ \A t \in Callers : pc[t] = "idle"
    /\ total < cleanup_interval_seconds
    /\ total' = total + 1
    /\ UNCHANGED <<storeVars, pc, op, sw, fr, ret, histVars>>

\* while total < interval and not stop: time.sleep(1); total += 1
\* (the second passes while every caller is between calls)
CleanupSleep ==
    /\ pc[Reaper] = "r_wait"
    /\ \A t \in Callers : pc[t] = "idle"
    /\ total < cleanup_interval_seconds /\ ~stop_event
    /\ total' = total + 1
    /\ UNCHANGED <<storeVars, pc, op, sw, fr, ret, histVars>>

\* the inner while ends
CleanupWake ==
    /\ pc[Reaper] = "r_wait"
    /\ ~(total < cleanup_interval_seconds /\ ~stop_event)
    /\ pc' = [pc EXCEPT ![Reaper] = "r_loop"]
    /\ UNCHANGED <<storeVars, op, sw, fr, ret, total, histVars>>

run_cleanup_loop ==
    \/ CleanupLoopExit
    \/ CleanupLoopSweep
    \/ CleanupSleep
    \/ CleanupWake
    \/ Sweep(Reaper)

\* ------------------------------------------------------------ the callers
SessionOps == {"add_exchange", "get_history", "clear_session",
               "get_langchain_format", "get_session_info"}
StoreOps == {"get_all_sessions", "session_count", "sweep", "stop"}

\* The first statement of a method.
Entry(name) ==
    CASE name = "add_exchange" -> "add_touch"
      [] name = "get_history" -> "gh_in"
      [] name = "clear_session" -> "cl_ex1"
      [] name = "get_langchain_format" -> "lc_in"
      [] name = "get_session_info" -> "si_in"
      [] name = "stop" -> "stop_set"
      [] name = "get_all_sessions" -> "gas_copy"
      [] name = "session_count" -> "sc_len"
      [] name = "sweep" -> "sweep_ret"

\* Caller t calls a method.  get_all_sessions and session_count begin with
\* the sweep; "sweep" is a direct call of _cleanup_inactive_sessions.
\* add_exchange is handed the next exchange.
Call(t, name, session_id) ==
    /\ pc[t] = "idle"
    /\ \/ name \in SessionOps /\ session_id \in Sessions
       \/ name \in StoreOps /\ session_id = "-"
    /\ op' = [op EXCEPT ![t] = [name |-> name, sid |-> session_id,
                                x |-> IF name = "add_exchange" THEN nextx ELSE 0]]
    /\ nextx' = IF name = "add_exchange" THEN nextx + 1 ELSE nextx
    /\ IF name \in {"get_all_sessions", "session_count", "sweep"}
       THEN CallSweep(t, Entry(name))
       ELSE pc' = [pc EXCEPT ![t] = Entry(name)] /\ UNCHANGED sw
    /\ UNCHANGED <<storeVars, fr, ret, total, log>>

\* The caller takes the result and is ready for its next call.
Return(t) ==
    /\ pc[t] = "done"
    /\ pc' = [pc EXCEPT ![t] = "idle"]
    /\ op' = [op EXCEPT ![t] = NoOp]
    /\ ret' = [ret EXCEPT ![t] = NoRet]
    /\ heap' = Collect(heap, Reach(memory, fr, op', ret'))
    /\ UNCHANGED <<memory, last_activity, stop_event, max_history, now, sw, fr, total, histVars>>

CallerStep(t) ==
    \/ add_exchange(t)
    \/ get_history(t)
    \/ clear_session(t)
    \/ get_langchain_format(t)
    \/ AllSessionsCopy(t)
    \/ SessionCountLen(t)
    \/ get_session_info(t)
    \/ stop(t)
    \/ Sweep(t)

\* ------------------------------------------------------------- the clock
\* Time passes while every caller is between calls and the cleanup thread
\* is outside the sweep.
Tick ==
    /\ now < MaxTime
    /\ \A t \in Callers : pc[t] = "idle"
    /\ pc[Reaper] \in {"r_loop", "r_wait", "r_exit"}
    /\ now' = now + 1
    /\ UNCHANGED <<memory, heap, last_activity, stop_event, max_history, threadVars, histVars>>

\* ------------------------------------------------- one operation at a time
Snapshot == [memory |-> View(memory, heap), last_activity |-> last_activity, now |-> now]

\* The operations of the single caller: every public method but stop, and
\* the sweep itself.
SerialOps == (SessionOps \cup StoreOps) \ {"stop"}

\* One caller, one operation at a time.  The cleanup thread's sweeps are the
\* caller's "sweep" operations here.
Next ==
    \/ \E name \in SerialOps, session_id \in Sessions \cup {"-"} :
         /\ name = "add_exchange" => nextx <= MaxAdds
         /\ Call("c1", name, session_id)
         /\ pre' = Snapshot
         /\ UNCHANGED <<calls, before>>
    \/ CallerStep("c1") /\ UNCHANGED <<pre, calls, before>>
    \/ Return("c1") /\ pre' = NoPre /\ UNCHANGED <<calls, before>>
    \/ Tick /\ UNCHANGED <<pre, calls, before>>

Spec == Init /\ [][Next]_vars

\* ------------------------------------- a caller and the cleanup thread
ReaperOps == {"add_exchange", "get_history", "clear_session", "stop"}

\* One caller and the cleanup thread, every step of one interleaved with the
\* steps of the other.
NextReaper ==
    \/ \E name \in ReaperOps, session_id \in Sessions \cup {"-"} :
         /\ calls < MaxCalls
         /\ name = "add_exchange" => nextx <= MaxAdds
         /\ Call("c1", name, session_id)
         /\ calls' = calls + 1
         /\ UNCHANGED <<pre, before>>
    \/ CallerStep("c1") /\ UNCHANGED <<pre, calls, before>>
    \/ Return("c1") /\ UNCHANGED <<pre, calls, before>>
    \/ run_cleanup_loop /\ UNCHANGED <<pre, calls, before>>
    \/ Tick /\ UNCHANGED <<pre, calls, before>>

SpecReaper == Init /\ [][NextReaper]_vars

\* A step of the cleanup thread, of the caller's method, and the caller's
\* taking the result, under SpecReaper.
ReaperStep == run_cleanup_loop /\ UNCHANGED <<pre, calls, before>>
MethodStep == CallerStep("c1") /\ UNCHANGED <<pre, calls, before>>
ReturnStep == Return("c1") /\ UNCHANGED <<pre, calls, before>>

\* The same, with both threads scheduled: the daemon thread and the calling
\* thread each go on whenever they can.
SpecReaperFair ==
    /\ Init
    /\ [][NextReaper]_vars
    /\ WF_vars(ReaperStep)
    /\ WF_vars(MethodStep)
    /\ WF_vars(ReturnStep)

\* ------------------------------------------------------------ two callers
\* Each caller writes to a session of its own.
SessionOf(t) == IF t = "c1" THEN "s1" ELSE "s2"

\* Two callers running add_exchange on different sessions, every step of one
\* interleaved with the steps of the other (the cleanup thread asleep).
NextCallers ==
    \/ \E t \in Callers :
         /\ nextx <= MaxAdds
         /\ Call(t, "add_exchange", SessionOf(t))
         /\ UNCHANGED <<pre, calls, before>>
    \/ \E t \in Callers : add_exchange(t) /\ UNCHANGED <<pre, calls, before>>
    \/ \E t \in Callers : Sweep(t) /\ UNCHANGED <<pre, calls, before>>
    \/ \E t \in Callers : Return(t) /\ UNCHANGED <<pre, calls, before>>
    \/ Tick /\ UNCHANGED <<pre, calls, before>>

SpecCallers == Init /\ [][NextCallers]_vars

\* ------------------------------------------- two writers of one session
\* The exchanges whose add_exchange has returned.
Returned == {i \in 1..(nextx - 1) : \A t \in Callers : pc[t] \in {"idle", "done"} \/ op[t].x # i}

\* Two callers running add_exchange on the same session, every step of one
\* interleaved with the steps of the other; no time passes.
NextWriters ==
    \/ \E t \in Callers :
         /\ nextx <= MaxRaceAdds
         /\ Call(t, "add_exchange", "s1")
         /\ before' = [before EXCEPT ![nextx] = Returned]
         /\ UNCHANGED <<pre, calls>>
    \/ \E t \in Callers : add_exchange(t) /\ UNCHANGED <<pre, calls, before>>
    \/ \E t \in Callers : Sweep(t) /\ UNCHANGED <<pre, calls, before>>
    \/ \E t \in Callers : Return(t) /\ UNCHANGED <<pre, calls, before>>

SpecWriters == Init /\ [][NextWriters]_vars

\* ------------------------------------------ a caller keeping a snapshot
SnapshotOps == {"add_exchange", "clear_session", "sweep"}

\* Caller c1 calls get_all_sessions and keeps what it returned until it
\* takes it away; caller c2 writes to the store.  One operation at a time.
NextSnapshot ==
    \/ /\ pc["c2"] \in {"idle", "done"}
       /\ Call("c1", "get_all_sessions", "-")
       /\ UNCHANGED <<pre, calls, before>>
    \/ \E name \in SnapshotOps, session_id \in Sessions \cup {"-"} :
         /\ pc["c1"] \in {"idle", "done"}
         /\ name = "add_exchange" => nextx <= MaxAdds
         /\ Call("c2", name, session_id)
         /\ UNCHANGED <<pre, calls, before>>
    \/ \E t \in Callers : CallerStep(t) /\ UNCHANGED <<pre, calls, before>>
    \/ \E t \in Callers : Return(t) /\ UNCHANGED <<pre, calls, before>>
    \/ Tick /\ UNCHANGED <<pre, calls, before>>

SpecSnapshot == Init /\ [][NextSnapshot]_vars

\* ------------------------------------------------- a limit that changes
\* settings.max_history_per_session is given another value between two
\* calls.
SetMaxHistory ==
    /\ \A t \in Callers : pc[t] = "idle"
    /\ max_history' \in (1..MaxHistoryCfg) \ {max_history}
    /\ UNCHANGED <<memory, heap, last_activity, stop_event, now, threadVars, histVars>>

\* One caller writing and reading, one operation at a time, while the limit
\* changes between its calls.
NextLimit ==
    \/ \E name \in {"add_exchange", "get_history"}, session_id \in Sessions :
         /\ name = "add_exchange" => nextx <= MaxAdds
         /\ Call("c1", name, session_id)
         /\ pre' = Snapshot
         /\ UNCHANGED <<calls, before>>
    \/ CallerStep("c1") /\ UNCHANGED <<pre, calls, before>>
    \/ Return("c1") /\ pre' = NoPre /\ UNCHANGED <<calls, before>>
    \/ SetMaxHistory /\ UNCHANGED <<pre, calls, before>>
    \/ Tick /\ UNCHANGED <<pre, calls, before>>

SpecLimit == Init /\ [][NextLimit]_vars

\* --------------------------- counting beside the cleanup thread
CountOps == {"session_count", "get_all_sessions"}

\* The caller is inside session_count or get_all_sessions.
Counting == op["c1"].name \in CountOps

\* One caller and the cleanup thread: the caller's add_exchange calls
\* interleave with the thread's steps; a session_count or get_all_sessions
\* call runs while the thread stands still.
NextCount ==
    \/ \E name \in CountOps \cup {"add_exchange"}, session_id \in Sessions \cup {"-"} :
         /\ calls < MaxCountCalls
         /\ name = "add_exchange" => nextx <= MaxAdds
         /\ Call("c1", name, session_id)
         /\ calls' = calls + 1
         /\ UNCHANGED <<pre, before>>
    \/ CallerStep("c1") /\ UNCHANGED <<pre, calls, before>>
    \/ Return("c1") /\ UNCHANGED <<pre, calls, before>>
    \/ ~Counting /\ run_cleanup_loop /\ UNCHANGED <<pre, calls, before>>
    \/ Tick /\ UNCHANGED <<pre, calls, before>>

SpecCount == Init /\ [][NextCount]_vars

\* ================================================================ claims
\* The caller of Spec has a finished call of `name` in hand.
Returns(name) == pc["c1"] = "done" /\ op["c1"].name = name /\ ret["c1"].status = "ok"

\* The last min(n, max_history) of the exchanges numbered by ids, in order.
LastExchanges(ids) ==
    LET n == Len(ids)
        k == Min(n, max_history)
    IN  [j \in 1..k |-> Exchange(ids[n - k + j])]

\* C1: after n add_exchange calls on a session (none cleared or expired in
\* between), get_history returns exactly the last min(n, max_history)
\* exchanges, in call order.
C1_HistoryContract ==
    Returns("get_history") => ret["c1"].val = LastExchanges(log[op["c1"].sid])

\* get_history returns a history that add_exchange has truncated.
C1_Witness ==
    /\ Returns("get_history")
    /\ max_history = 2
    /\ Len(log[op["c1"].sid]) = 3
    /\ ret["c1"].val = <<Exchange(2), Exchange(3)>>

\* The sessions a sweep called in the state `p` removes.
ExpiredIn(p) == {s \in DOMAIN p.last_activity : p.now - p.last_activity[s] > session_timeout}

\* C2: a sweep removes history and timestamp of exactly the sessions with
\* now - last_activity > session_timeout and returns their count; every other
\* session, one idle for exactly session_timeout included, keeps its history
\* and its timestamp.
C2_SweepExpiry ==
    Returns("sweep") =>
        /\ DOMAIN last_activity = DOMAIN pre.last_activity \ ExpiredIn(pre)
        /\ DOMAIN memory = DOMAIN pre.memory \ ExpiredIn(pre)
        /\ ret["c1"].val = Cardinality(ExpiredIn(pre))
        /\ \A s \in DOMAIN last_activity : last_activity[s] = pre.last_activity[s]
        /\ \A s \in DOMAIN memory : heap[memory[s]] = pre.memory[s]

\* A sweep removes one session and keeps one idle for exactly the timeout.
C2_Witness ==
    /\ Returns("sweep")
    /\ ret["c1"].val = 1
    /\ \E s \in DOMAIN last_activity : now - last_activity[s] = session_timeout

\* C3: with one caller running one operation at a time, between operations
\* the history map and the activity map hold the same session ids.
C3_BothOrNeither ==
    pc["c1"] \in {"idle", "done"} => DOMAIN memory = DOMAIN last_activity

\* A sweep has removed a session and left another, and a clear has removed one.
C3_Witness ==
    /\ pc["c1"] = "done"
    /\ op["c1"].name \in {"sweep", "clear_session"}
    /\ DOMAIN pre.memory = Sessions
    /\ Cardinality(DOMAIN memory) = 1
    /\ DOMAIN memory = DOMAIN last_activity

\* C8: get_history, get_langchain_format and get_session_info of a session
\* that is not in the store return the empty sequence, the empty sequence and
\* {exists: false}, and leave both maps as they were.
C8_ReadCreatesNothing ==
    \A name \in {"get_history", "get_langchain_format", "get_session_info"} :
        (/\ pc["c1"] = "done"
         /\ op["c1"].name = name
         /\ op["c1"].sid \notin DOMAIN pre.memory \cup DOMAIN pre.last_activity)
        => /\ ret["c1"].status = "ok"
           /\ ret["c1"].val = IF name = "get_session_info" THEN [exists |-> FALSE] ELSE <<>>
           /\ View(memory, heap) = pre.memory
           /\ last_activity = pre.last_activity

\* get_history of an absent session has returned while another session exists.
C8_Witness ==
    /\ Returns("get_history")
    /\ op["c1"].sid \notin DOMAIN pre.memory
    /\ DOMAIN memory # {}

\* The dict d without the key k.
Without(d, k) == [j \in DOMAIN d \ {k} |-> d[j]]

\* C9: clear_session(S) returns whether S was in either map; afterwards S is
\* in neither and every other session is as before; clearing an absent
\* session returns false and changes nothing.
C9_ClearSession ==
    (pc["c1"] = "done" /\ op["c1"].name = "clear_session") =>
        LET S == op["c1"].sid IN
        /\ ret["c1"].status = "ok"
        /\ ret["c1"].val = (S \in DOMAIN pre.memory \/ S \in DOMAIN pre.last_activity)
        /\ S \notin DOMAIN memory
        /\ S \notin DOMAIN last_activity
        /\ View(memory, heap) = Without(pre.memory, S)
        /\ last_activity = Without(pre.last_activity, S)

\* clear_session has removed one of two sessions and returned true.
C9_Witness ==
    /\ Returns("clear_session")
    /\ ret["c1"].val = TRUE
    /\ DOMAIN pre.memory = Sessions
    /\ DOMAIN memory = Sessions \ {op["c1"].sid}

\* No caller is inside a method.
Quiescent == \A t \in Callers : pc[t] \in {"idle", "done"}

\* The cleanup thread is outside the sweep.
Parked == pc[Reaper] \in {"r_loop", "r_wait", "r_exit"}

\* C4: when a caller's add_exchange, get_history and clear_session
\* interleave with the cleanup thread's sweep, one map access a step, then
\* whenever no operation is in progress and the thread is outside the sweep
\* the history map and the activity map hold the same session ids: no session
\* is left with history and no timestamp, or with a timestamp and no history.
C4_BothOrNeitherConc ==
    (Quiescent /\ Parked) => DOMAIN memory = DOMAIN last_activity

\* C5: add_exchange calls of different threads on different sessions do not
\* corrupt each other's history: when the calls have returned, the session
\* of a caller whose add_exchange has just returned holds a history that
\* ends with the exchange that call appended.
C5_DistinctSessions ==
    (Quiescent /\ \A u \in Callers : ret[u].status # "raised") =>
        \A t \in Callers :
            (pc[t] = "done" /\ op[t].name = "add_exchange") =>
                /\ op[t].sid \in DOMAIN memory
                /\ heap[memory[op[t].sid]] # <<>>
                /\ heap[memory[op[t].sid]][Len(heap[memory[op[t].sid]])] = Exchange(op[t].x)

\* The orders of the n add_exchange calls made so far in which a call that
\* had returned before another was made comes first.
SerialOrders(n) ==
    {o \in [1..n -> 1..n] :
        /\ \A i \in 1..n, j \in 1..n : i # j => o[i] # o[j]
        /\ \A i \in 1..n, j \in 1..n : o[i] \in before[o[j]] => i < j}

\* C6: interleaved add_exchange calls on one session are serializable: when
\* all have returned, the session's history is the one that some sequential
\* order of the calls produces, an order that keeps a call which had returned
\* before another began ahead of it.
C6_SameSessionSerializable ==
    (Quiescent /\ nextx > 1) =>
        /\ "s1" \in DOMAIN memory
        /\ \E o \in SerialOrders(nextx - 1) : heap[memory["s1"]] = LastExchanges(o)

\* C7: no public operation raises, under any interleaving.
C7_NoRaise ==
    \A t \in Callers : ret[t].status # "raised"

\* The cleanup thread executes line 31, the first statement of a sweep.
ReaperBeginsSweep == pc[Reaper] = "sw_begin" /\ pc'[Reaper] = "sw_next"

\* The caller executes stop().
StopStep == pc["c1"] = "stop_set" /\ pc'["c1"] = "done"

\* C10 as claimed: once stop() has returned the cleanup thread begins no
\* sweep.
C10_NoSweepAfterStop ==
    [][stop_event => ~ReaperBeginsSweep]_vars

\* C10 as amended: stop() sets the signal, which stays set, and changes
\* neither map, the first time and every later time; once the signal is set
\* the cleanup thread enters no sweep (it only completes the iteration whose
\* loop test came before the signal); and from then on, while it is outside
\* that iteration and no caller runs add_exchange or clear_session, no
\* session leaves either map, however long it has been idle.
C10_StopAmended ==
    [][/\ stop_event => stop_event'
       /\ StopStep => /\ stop_event'
                      /\ memory' = memory
                      /\ View(memory', heap') = View(memory, heap)
                      /\ last_activity' = last_activity
       /\ (stop_event /\ Parked) => Parked'
       /\ (stop_event /\ Parked /\ op["c1"].name \notin {"add_exchange", "clear_session"})
            => /\ DOMAIN memory \subseteq DOMAIN memory'
               /\ DOMAIN last_activity \subseteq DOMAIN last_activity'
      ]_vars

\* After stop() the cleanup thread has ended and a session idle beyond the
\* timeout is still in both maps.
C10_Witness ==
    /\ stop_event
    /\ pc[Reaper] = "r_exit"
    /\ \E s \in DOMAIN memory \cap DOMAIN last_activity : Expired(now, last_activity[s])

\* Session s is in the history map and is due for removal: its timestamp is
\* older than the timeout, or it has no timestamp at all.
Overdue(s) ==
    /\ s \in DOMAIN memory
    /\ s \in DOMAIN last_activity => Expired(now, last_activity[s])

\* C11: while the cleanup thread runs and is scheduled, no session's history
\* stays in the store for ever once it is due for removal: again and again
\* the thread is stopped, or the session is gone, or it has a timestamp
\* within the timeout.
C11_EventualExpiry ==
    \A s \in Sessions : []<>(stop_event \/ ~Overdue(s))

\* Caller c1 has the mapping get_all_sessions returned in hand.
Holding == pc["c1"] = "done" /\ op["c1"].name = "get_all_sessions" /\ ret["c1"].status = "ok"

\* C12: the mapping get_all_sessions returned is an independent copy: while
\* the caller holds it, no add_exchange, clear_session or sweep changes its
\* session ids or the history it holds for any of them.
C12_SnapshotIndependent ==
    [][(Holding /\ Holding')
         => View(ret'["c1"].val, heap') = View(ret["c1"].val, heap)]_vars

\* The history of session s in the state p, empty when it has none.
HistoryOf(p, s) == IF s \in DOMAIN p.memory THEN p.memory[s] ELSE <<>>

\* C13: get_langchain_format(S) on the history (q1,a1),...,(qn,an) returns
\* 2n messages, number 2i-1 a human message with content qi and number 2i
\* an assistant message with content ai; for an absent session it returns
\* the empty sequence; it sets S's timestamp only if S exists, and changes
\* nothing else.
C13_LangchainFormat ==
    Returns("get_langchain_format") =>
        LET S == op["c1"].sid
            h == HistoryOf(pre, S)
            m == ret["c1"].val
        IN  /\ Len(m) = 2 * Len(h)
            /\ \A i \in 1..Len(h) :
                 /\ m[2 * i - 1] = [type |-> "human", content |-> h[i][1]]
                 /\ m[2 * i] = [type |-> "ai", content |-> h[i][2]]
            /\ View(memory, heap) = pre.memory
            /\ last_activity = IF S \in DOMAIN pre.memory
                               THEN [s \in DOMAIN pre.last_activity \cup {S} |->
                                        IF s = S THEN now ELSE pre.last_activity[s]]
                               ELSE pre.last_activity

\* get_langchain_format has returned four messages for a history of two
\* exchanges, and has moved the session's timestamp.
C13_Witness ==
    /\ Returns("get_langchain_format")
    /\ Len(ret["c1"].val) = 4
    /\ pre.last_activity[op["c1"].sid] < last_activity[op["c1"].sid]

\* get_session_info has returned the record of an existing session.
ReturnsInfo == Returns("get_session_info") /\ ret["c1"].val.exists

\* C14 as claimed: get_session_info reports is_active = true exactly when a
\* sweep at the same instant would not remove the session, the instant at
\* which it has been idle for exactly session_timeout included.
C14_ActiveUntilSwept ==
    ReturnsInfo =>
        (ret["c1"].val.is_active <=> op["c1"].sid \notin ExpiredIn(pre))

\* C14 as amended: is_active is true exactly when now - last_activity is
\* less than session_timeout; it is false for every session a sweep at that
\* instant would remove, and false as well at the instant the session has
\* been idle for exactly session_timeout, which the sweep does not remove.
C14_ActiveStrictlyWithin ==
    ReturnsInfo =>
        LET S == op["c1"].sid IN
        /\ S \in DOMAIN pre.last_activity
        /\ ret["c1"].val.is_active <=> (pre.now - pre.last_activity[S] < session_timeout)
        /\ S \in ExpiredIn(pre) => ~ret["c1"].val.is_active
        /\ pre.now - pre.last_activity[S] = session_timeout
             => (~ret["c1"].val.is_active /\ S \notin ExpiredIn(pre))

\* A session idle for exactly session_timeout is reported inactive.
C14_Witness ==
    /\ ReturnsInfo
    /\ pre.now - pre.last_activity[op["c1"].sid] = session_timeout
    /\ ~ret["c1"].val.is_active

\* The next statement of the cleanup thread's sweep raises: the iterator
\* finds the activity map resized, or the del finds the key gone.
ReaperAboutToRaise ==
    \/ /\ pc[Reaper] = "sw_next"
       /\ Cardinality(DOMAIN last_activity) # sw[Reaper].size
    \/ /\ pc[Reaper] = "sw_delact"
       /\ sw[Reaper].inactive[sw[Reaper].i] \notin DOMAIN last_activity

\* The cleanup thread's sweep returns normally.
ReaperSweepReturns ==
    /\ ReaperStep
    /\ pc[Reaper] = "sw_for"
    /\ pc'[Reaper] = "r_wait"

\* C15: the cleanup thread ends only after the stop signal is set; a sweep
\* of it that raises changes neither map in raising and leaves the thread at
\* the wait of its loop; and unless it is stopped the thread goes on to
\* complete sweeps normally again and again.
C15_ReaperSurvives ==
    /\ [](pc[Reaper] = "r_exit" => stop_event)
    /\ [][(ReaperAboutToRaise /\ ReaperStep)
            => /\ pc'[Reaper] = "r_wait"
               /\ total' = 0
               /\ memory' = memory
               /\ last_activity' = last_activity]_vars
    /\ (<>stop_event \/ []<><<ReaperSweepReturns>>_vars)

\* A sweep of the cleanup thread is about to raise KeyError: the caller has
\* deleted the session it scanned as expired.
C15_Witness ==
    /\ ~stop_event
    /\ pc[Reaper] = "sw_delact"
    /\ sw[Reaper].inactive[sw[Reaper].i] \notin DOMAIN last_activity

\* The last k elements of the sequence lst.
LastOf(lst, k) == [j \in 1..k |-> lst[Len(lst) - k + j]]

\* C16: the limit is read on every write: when add_exchange(S, ...) returns
\* with the limit at m, the history of S is the last min(previous length
\* + 1, m) entries of the previous history followed by the new exchange,
\* whatever the limit was before; no other session's history is truncated.
C16_LiveLimit ==
    Returns("add_exchange") =>
        LET S == op["c1"].sid
            old == HistoryOf(pre, S)
            all == Append(old, Exchange(op["c1"].x))
        IN  /\ S \in DOMAIN memory
            /\ Len(heap[memory[S]]) = Min(Len(old) + 1, max_history)
            /\ heap[memory[S]] = LastOf(all, Min(Len(old) + 1, max_history))
            /\ \A s \in DOMAIN memory \ {S} :
                 s \in DOMAIN pre.memory /\ heap[memory[s]] = pre.memory[s]

\* A write under a lowered limit has truncated a history of two entries to
\* the new exchange alone.
C16_Witness ==
    /\ Returns("add_exchange")
    /\ max_history = 1
    /\ Len(HistoryOf(pre, op["c1"].sid)) = 2
    /\ Len(heap[memory[op["c1"].sid]]) = 1

\* The sessions with now - last_activity <= session_timeout.
Unexpired == {s \in DOMAIN last_activity : ~Expired(now, last_activity[s])}

\* C17: after any interleaving of earlier calls with the cleanup thread,
\* session_count returns the number of sessions with now - last_activity <=
\* session_timeout and get_all_sessions returns exactly those sessions with
\* their histories.
C17_CountsUnexpired ==
    (pc["c1"] = "done" /\ ret["c1"].status = "ok" /\ Parked) =>
        /\ op["c1"].name = "session_count" => ret["c1"].val = Cardinality(Unexpired)
        /\ op["c1"].name = "get_all_sessions" => DOMAIN ret["c1"].val = Unexpired

\* The cleanup thread passes the test of its wait loop and sleeps a second.
ReaperSleeps == pc[Reaper] = "r_wait" /\ total' = total + 1

\* The cleanup thread passes the test of its outer loop and calls the sweep.
ReaperEntersSweep == pc[Reaper] = "r_loop" /\ pc'[Reaper] = "sw_begin"

\* C18: once the stop signal is set the scheduled cleanup thread ends; on
\* the way it passes neither loop test again: it completes at most the
\* iteration it is in (its sweep, or the one-second sleep whose test came
\* before the signal), starts no further sleep and enters no further sweep.
C18_StopResponsive ==
    /\ stop_event ~> (pc[Reaper] = "r_exit")
    /\ [][stop_event => (~ReaperSleeps /\ ~ReaperEntersSweep)]_vars

\* The cleanup thread has ended with its wait cut short.
C18_Witness ==
    /\ stop_event
    /\ pc[Reaper] = "r_exit"
    /\ total > 0
    /\ total < cleanup_interval_seconds

\* C19: add_exchange(S, q, a) on a session already idle beyond the timeout
\* and not yet swept keeps S: on return S is in both maps, stamped now, its
\* history the old one followed by (q, a) (cut to the limit), and every
\* other session expired at that moment is gone from both maps while the
\* unexpired ones are as before.
C19_WriterRevives ==
    (Returns("add_exchange") /\ op["c1"].sid \in ExpiredIn(pre)) =>
        LET S == op["c1"].sid
            all == Append(HistoryOf(pre, S), Exchange(op["c1"].x))
            kept == (DOMAIN pre.last_activity \ ExpiredIn(pre)) \cup {S}
        IN  /\ DOMAIN memory = kept
            /\ DOMAIN last_activity = kept
            /\ last_activity[S] = now
            /\ heap[memory[S]] = LastOf(all, Min(Len(all), max_history))
            /\ heap[memory[S]][Len(heap[memory[S]])] = Exchange(op["c1"].x)
            /\ \A s \in kept \ {S} :
                 /\ heap[memory[s]] = pre.memory[s]
                 /\ last_activity[s] = pre.last_activity[s]

\* Both sessions were idle beyond the timeout: the write has kept its own,
\* old exchange included, and removed the other.
C19_Witness ==
    /\ Returns("add_exchange")
    /\ ExpiredIn(pre) = Sessions
    /\ DOMAIN memory = {op["c1"].sid}
    /\ Len(heap[memory[op["c1"].sid]]) = 2
    /\ heap[memory[op["c1"].sid]][1] = pre.memory[op["c1"].sid][1]

\* C20: get_session_info observes only: for a session that exists and for
\* one that does not, it leaves the history map and the activity map as they
\* were - no timestamp is refreshed and no expired session is swept - and it
\* reports the history's length and the timestamp it found.
C20_InfoObservesOnly ==
    Returns("get_session_info") =>
        LET S == op["c1"].sid IN
        /\ View(memory, heap) = pre.memory
        /\ last_activity = pre.last_activity
        /\ ret["c1"].val.exists <=> S \in DOMAIN pre.memory
        /\ ret["c1"].val.exists =>
             /\ ret["c1"].val.message_count = Len(pre.memory[S])
             /\ ret["c1"].val.last_activity = pre.last_activity[S]

\* get_session_info has reported a session idle beyond the timeout, which is
\* still in both maps with its old timestamp, as is another expired session.
C20_Witness ==
    /\ Returns("get_session_info")
    /\ ret["c1"].val.exists
    /\ ExpiredIn(pre) = Sessions
    /\ DOMAIN memory = Sessions
    /\ last_activity = pre.last_activity
====
